---- MODULE Spec2Model ----
(***************************************************************************)
(* Model of the websocket client of src/src/index.ts (class Client): the   *)
(* connection manager (connect / reconnect), the callback registry         *)
(* (asyncSend, addMessageListener, the onmessage dispatch) and the two     *)
(* header strings.                                                         *)
(*                                                                         *)
(* JavaScript values are tagged records, so that TLC never compares values *)
(* of different kinds: a field the constructor does not assign holds the   *)
(* value `undefined' (t = "undefined").                                   *)
(***************************************************************************)
EXTENDS Integers, Sequences, FiniteSets, TLC

\* ------------------------------------------------------------------ bounds
MaxSockets == 4      \* WebSocket objects created by connect()
MaxCalls == 2        \* application calls of the public methods
MaxFrames == 1       \* inbound messages delivered by the transport
MaxTicks == 1        \* milliseconds the clock advances
MaxSets == 4         \* header table writes, when the header table is checked alone
MaxInbound == 2      \* inbound messages, when the dispatch is checked alone

\* --------------------------------------------------------------- constants
MAX_PAYLOAD == 1024 * 1024
Epoch == 100         \* value of new Date().getTime() when the client is built

VARIABLES
  sockets,           \* every WebSocket connect() has created, in creation order
  socket,            \* this.socket: index into sockets
  reconnectTimes,    \* this.reconnectTimes
  reconnectLock,     \* this.reconnectLock
  timers,            \* pending setTimeout callbacks of reconnect(), their delay in ms
  attempts,          \* history: connect() calls issued by timers since the last onopen
  requestCallback,   \* this.requestCallback: the registry
  requestHeader,     \* this.requestHeader
  responseHeader,    \* this.responseHeader
  maxPayload,        \* this.maxPayload
  now,               \* the clock read by new Date().getTime()
  readers,           \* FileReaders whose onload has not run yet, with their packet
  wire,              \* frames handed to socket.send
  trace              \* history: calls made, frames dispatched and hooks invoked

vars == <<sockets, socket, reconnectTimes, reconnectLock, timers, attempts,
          requestCallback, requestHeader, responseHeader, maxPayload, now,
          readers, wire, trace>>

connVars == <<sockets, socket, reconnectTimes, reconnectLock, timers, attempts>>
appVars == <<requestCallback, requestHeader, responseHeader, maxPayload, now,
             readers, wire, trace>>

\* ------------------------------------------------------- JavaScript values
Undefined == [t |-> "undefined", n |-> 0]
NaN == [t |-> "NaN", n |-> 0]
Num(k) == [t |-> "number", n |-> k]
JSTrue == [t |-> "boolean", n |-> 1]
JSFalse == [t |-> "boolean", n |-> 0]

\* !x
Falsy(x) == x.t \in {"undefined", "NaN"} \/ x.n = 0

\* x++ on a field: undefined and NaN become NaN
IncrementBy2(x) == IF x.t = "number" THEN Num(x.n + 2) ELSE NaN
Increment(x) == IF x.t = "number" THEN Num(x.n + 1) ELSE NaN

\* x * 1000 handed to setTimeout: NaN is coerced to a delay of 0
TimeoutDelay(x) == IF x.t = "number" THEN x.n * 1000 ELSE 0

\* ---------------------------------------------------------------- strings
\* A string is a sequence of symbols.  A symbol is one character ("a", "=",
\* ";") or a word no other symbol overlaps ("code", "404"), so that substring
\* search over symbols agrees with substring search over characters.
UndefinedStr == [t |-> "undefined", s |-> <<>>]
Str(s) == [t |-> "string", s |-> s]

\* string concatenation of a value: undefined is written "undefined"
ToText(v) == IF v.t = "undefined" THEN <<"undefined">> ELSE v.s

\* String.prototype.split with a one-symbol separator
RECURSIVE Split(_, _)
Split(s, sep) ==
  IF \A i \in 1..Len(s) : s[i] # sep THEN <<s>>
  ELSE LET i == CHOOSE j \in 1..Len(s) :
                  s[j] = sep /\ \A h \in 1..(j - 1) : s[h] # sep
       IN <<SubSeq(s, 1, i - 1)>> \o Split(SubSeq(s, i + 1, Len(s)), sep)

\* String.prototype.indexOf, 1-based; 0 when pat does not occur
IndexOf(s, pat) ==
  LET hits == {i \in 1..(Len(s) - Len(pat) + 1) : SubSeq(s, i, i + Len(pat) - 1) = pat}
  IN IF hits = {} THEN 0 ELSE CHOOSE i \in hits : \A j \in hits : i <= j

\* String.prototype.replace(pat, '') with a string pattern: the first occurrence
ReplaceFirst(s, pat) ==
  LET i == IndexOf(s, pat)
  IN IF i = 0 THEN s ELSE SubSeq(s, 1, i - 1) \o SubSeq(s, i + Len(pat), Len(s))

\* the loop shared by getRequestProperty and getResponseProperty: the value of
\* the first token whose text before '=' is key, or `none'
RECURSIVE FirstMatch(_, _, _)
FirstMatch(values, key, none) ==
  IF values = <<>> THEN none
  ELSE LET kv == Split(Head(values), "=") IN
       IF kv[1] = key
       THEN (IF Len(kv) >= 2 THEN Str(kv[2]) ELSE UndefinedStr)
       ELSE FirstMatch(Tail(values), key, none)

\* getRequestProperty(key) on a header string h: undefined when absent
getRequestProperty(h, key) == FirstMatch(Split(h, ";"), key, UndefinedStr)

\* getResponseProperty(key) on a header string h: '' when absent
getResponseProperty(h, key) == FirstMatch(Split(h, ";"), key, Str(<<>>))

\* setRequestProperty(key, value) on a header string h
setRequestProperty(h, key, value) ==
  LET v == getRequestProperty(h, key)
  IN ReplaceFirst(h, key \o <<"=">> \o ToText(v) \o <<";">>) \o key \o <<"=">> \o value \o <<";">>

\* setResponseProperty(key, value) on a header string h
setResponseProperty(h, key, value) ==
  LET v == getResponseProperty(h, key)
  IN ReplaceFirst(h, key \o <<"=">> \o ToText(v) \o <<";">>) \o key \o <<"=">> \o value \o <<";">>

\* number of tokens of h that start with key followed by '='
Tokens(h, key) ==
  LET values == Split(h, ";")
  IN Cardinality({i \in 1..Len(values) :
       Len(values[i]) > Len(key) /\ SubSeq(values[i], 1, Len(key) + 1) = key \o <<"=">>})

\* Number(s) of a string value
ToNumber(v) ==
  CASE v.t = "undefined" -> NaN
    [] v.s = <<>> -> Num(0)
    [] v.s = <<"404">> -> Num(404)
    [] OTHER -> NaN

\* ----------------------------------------------------------------- inputs
Operators == {"foo", "bar"}

\* Utils.crc32: a function from operator names to 32-bit integers
crc32(operator) ==
  CASE operator = "foo" -> 10 [] operator = "bar" -> 11 [] operator = "ping" -> 0

\* callback arguments of asyncSend: a bare function, a record with the four
\* hooks, a record with onSuccess only
FullRecord == [type |-> "object", hooks |-> {"onStart", "onSuccess", "onError", "onEnd"}]
CallbackArgs ==
  { [type |-> "function", hooks |-> {}],
    FullRecord,
    [type |-> "object", hooks |-> {"onSuccess"}] }

Listeners == {1, 2}

\* Utils.crc32(0), the key ping registers its listener under: operator 0 is
\* the keep-alive operator and its frames carry operator 0 and sequence 0
PingKey == crc32("ping")

\* arguments of setMaxPayload
MaxPayloads == {40}

\* the bytes an application hands to send(data), as the frame they encode
RawData == [operator |-> crc32("foo"), sequence |-> 0, header |-> Str(<<>>)]

Keys == {<<"b">>, <<"a", "b">>, <<"c">>}
Values == {<<"x">>, <<"y">>}

\* packets as Packet.unPack returns them
Packet(op, seq, hl, bl, h, b) ==
  [operator |-> op, sequence |-> seq, headerLength |-> hl, bodyLength |-> bl,
   header |-> h, body |-> b]
ErrorHeader == <<"code", "=", "404", ";", "message", "=", "not+found", ";">>
Frames ==
  { Packet(crc32("foo"), Epoch, 0, 0, <<>>, <<>>),
    Packet(crc32("foo"), Epoch, 27, 2, ErrorHeader, <<"{}">>),
    Packet(crc32("bar"), 0, 0, 12, <<>>, <<"{\"msg\":\"hi\"}">>),
    Packet(crc32("bar"), 0, 0, MAX_PAYLOAD, <<>>, <<"big">>) }

\* a push for operator bar without a body
EmptyPush == Packet(crc32("bar"), 0, 0, 0, <<>>, <<>>)

\* JSON.parse: the parsed value of a JSON text, or a SyntaxError
ValidJSON == {<<"{}">>, <<"null">>, <<"{\"msg\":\"hi\"}">>}
JSONparse(text) ==
  IF text \in ValidJSON THEN [t |-> "value", json |-> text]
  ELSE [t |-> "SyntaxError", json |-> <<>>]

\* ------------------------------------------------------------------ history
CallEvent(fn, op, arg, seq, key, r) ==
  [e |-> "call", fn |-> fn, op |-> op, arg |-> arg, seq |-> seq, key |-> key, r |-> r]
HookEvent(kind, id, hook, args) ==
  [e |-> "hook", kind |-> kind, id |-> id, hook |-> hook, args |-> args]
FrameEvent(p, r) == [e |-> "frame", packet |-> p, r |-> r]

Calls == {i \in 1..Len(trace) : trace[i].e = "call"}
FramesSeen == {i \in 1..Len(trace) : trace[i].e = "frame"}
CallsLeft == Cardinality(Calls) < MaxCalls
SetsLeft == Cardinality(Calls) < MaxSets

\* --------------------------------------------------------------- registry
\* this.requestCallback[key] = entry
Put(m, key, kind, ref) ==
  {x \in m : x.key # key} \cup {[key |-> key, kind |-> kind, ref |-> ref]}
\* delete this.requestCallback[key]
Delete(m, key) == {x \in m : x.key # key}
\* this.requestCallback.hasOwnProperty(key)
Has(m, key) == \E x \in m : x.key = key
Entry(m, key) == CHOOSE x \in m : x.key = key

\* the closure of asyncSend, run before the frame's header is stored: it
\* reads the response header of the frame before
OneShotStale(h, hooks, c, data) ==
  LET code == getResponseProperty(ToText(responseHeader), <<"code">>)
      message == getResponseProperty(ToText(responseHeader), <<"message">>)
      first == IF code.t # "undefined"
               THEN (IF "onError" \in hooks
                     THEN <<HookEvent("call", c, "onError", <<code, message>>)>> ELSE <<>>)
               ELSE (IF "onSuccess" \in hooks
                     THEN <<HookEvent("call", c, "onSuccess", <<data>>)>> ELSE <<>>)
      last == IF "onEnd" \in hooks THEN <<HookEvent("call", c, "onEnd", <<>>)>> ELSE <<>>
  IN first \o last
\* the closure asyncSend registers for call c, run on the response header h:
\* the hooks it invokes, in order
OneShot(h, hooks, c, data) ==
  LET code == getResponseProperty(h, <<"code">>)
      message == getResponseProperty(h, <<"message">>)
      first == IF code.t # "undefined"
               THEN (IF "onError" \in hooks
                     THEN <<HookEvent("call", c, "onError", <<code, message>>)>> ELSE <<>>)
               ELSE (IF "onSuccess" \in hooks
                     THEN <<HookEvent("call", c, "onSuccess", <<data>>)>> ELSE <<>>)
      last == IF "onEnd" \in hooks THEN <<HookEvent("call", c, "onEnd", <<>>)>> ELSE <<>>
  IN first \o last

\* the listener ping registers for call c, run on the response header h: the
\* hooks it invokes, in order; calling a hook the record lacks is a TypeError
\* that ends the listener
PingListener(h, hooks, c, data) ==
  LET code == getResponseProperty(h, <<"code">>)
      message == getResponseProperty(h, <<"message">>)
      thrown == <<HookEvent("call", c, "TypeError", <<>>)>>
      first == IF code.t # "undefined"
               THEN (IF "onError" \in hooks
                     THEN <<HookEvent("call", c, "onError", <<ToNumber(code), message>>)>>
                     ELSE thrown)
               ELSE (IF "onSuccess" \in hooks
                     THEN <<HookEvent("call", c, "onSuccess", <<data>>)>> ELSE thrown)
      last == IF "onEnd" \in hooks THEN <<HookEvent("call", c, "onEnd", <<>>)>> ELSE thrown
  IN IF first = thrown THEN first ELSE first \o last

\* the body reader.onload hands to JSON.parse: '' is replaced by '{}'
RawBody(packet) == packet.body
NormalBody(packet) == IF packet.body = <<>> THEN <<"{}">> ELSE packet.body

\* ---------------------------------------------------------------- sockets
NewSocket == [readyState |-> "CONNECTING", error |-> FALSE, close |-> FALSE]

\* ---------------------------------------------------------------- reconnect
\* reconnect(): the lock and the timers after the call
reconnectNoGuard(lock, times, tm) ==
  [lock |-> JSTrue, timers |-> Append(tm, TimeoutDelay(times))]
reconnectNoTimer(lock, times, tm) ==
  IF Falsy(lock) THEN [lock |-> JSTrue, timers |-> tm]
  ELSE [lock |-> lock, timers |-> tm]
reconnect(lock, times, tm) ==
  IF Falsy(lock)
  THEN [lock |-> JSTrue, timers |-> Append(tm, TimeoutDelay(times))]
  ELSE [lock |-> lock, timers |-> tm]

\* the bound: a timer is scheduled only if the socket it creates fits
Fits(r) == Len(sockets) + Len(r.timers) <= MaxSockets

Init ==
  /\ sockets = <<NewSocket>>
  /\ socket = 1
  /\ reconnectTimes = Undefined
  /\ reconnectLock = Undefined
  /\ timers = <<>>
  /\ attempts = 0
  /\ requestCallback = [t |-> "undefined", m |-> {}]
  /\ requestHeader = [t |-> "undefined", s |-> <<>>]
  /\ responseHeader = [t |-> "undefined", s |-> <<>>]
  /\ maxPayload = MAX_PAYLOAD
  /\ now = Epoch
  /\ readers = <<>>
  /\ wire = <<>>
  /\ trace = <<>>

\* ws.onopen of socket i, writing the frames sent so far again on socket i
OpenResend(i) ==
  /\ sockets[i].readyState = "CONNECTING"
  /\ ~sockets[i].error /\ ~sockets[i].close
  /\ sockets' = [sockets EXCEPT ![i].readyState = "OPEN"]
  /\ reconnectTimes' = Num(0)
  /\ attempts' = 0
  /\ wire' = wire \o [k \in 1..Len(wire) |-> [wire[k] EXCEPT !.socket = i]]
  /\ UNCHANGED <<socket, reconnectLock, timers>>
  /\ UNCHANGED <<requestCallback, requestHeader, responseHeader, maxPayload, now,
                 readers, trace>>
\* ws.onopen of socket i
Open(i) ==
  /\ sockets[i].readyState = "CONNECTING"
  /\ ~sockets[i].error /\ ~sockets[i].close
  /\ sockets' = [sockets EXCEPT ![i].readyState = "OPEN"]
  /\ reconnectTimes' = Num(0)
  /\ attempts' = 0
  /\ UNCHANGED <<socket, reconnectLock, timers>>
  /\ UNCHANGED appVars

\* the connection of socket i has failed: the transport sets readyState to
\* CLOSED and fires the error event and then the close event in one task, so
\* ws.onerror and then ws.onclose run with no timer or other event in between
Error(i) ==
  /\ sockets[i].readyState \in {"CONNECTING", "OPEN"}
  /\ ~sockets[i].error /\ ~sockets[i].close
  /\ LET e == reconnect(reconnectLock, reconnectTimes, timers)
         r == reconnect(e.lock, reconnectTimes, e.timers)
     IN
       /\ Fits(r)
       /\ reconnectLock' = r.lock
       /\ timers' = r.timers
  /\ sockets' = [sockets EXCEPT ![i].readyState = "CLOSED", ![i].error = TRUE,
                                ![i].close = TRUE]
  /\ UNCHANGED <<socket, reconnectTimes, attempts>>
  /\ UNCHANGED appVars

\* ws.onclose of socket i, the connection having been closed without a failure
Close(i) ==
  /\ sockets[i].readyState = "OPEN"
  /\ ~sockets[i].close
  /\ LET r == reconnect(reconnectLock, reconnectTimes, timers) IN
       /\ Fits(r)
       /\ reconnectLock' = r.lock
       /\ timers' = r.timers
  /\ sockets' = [sockets EXCEPT ![i].readyState = "CLOSED", ![i].close = TRUE]
  /\ UNCHANGED <<socket, reconnectTimes, attempts>>
  /\ UNCHANGED appVars

\* the setTimeout callback of reconnect()
TimerFire(k) ==
  /\ k \in 1..Len(timers)
  /\ Len(sockets) < MaxSockets
  /\ reconnectTimes' = Increment(reconnectTimes)
  /\ sockets' = Append(sockets, NewSocket)
  /\ socket' = Len(sockets) + 1
  /\ reconnectLock' = JSFalse
  /\ timers' = [j \in 1..(Len(timers) - 1) |-> IF j < k THEN timers[j] ELSE timers[j + 1]]
  /\ attempts' = attempts + 1
  /\ UNCHANGED appVars

\* asyncSend up to the onStart hook (lines 74-87) for call c: the error
\* thrown, or "pass", and the hooks invoked
asyncSendStartFirst(callback, readyState, c) ==
  LET started == IF "onStart" \in callback.hooks
                 THEN <<HookEvent("call", c, "onStart", <<>>)>> ELSE <<>>
  IN IF callback.type # "object" THEN [r |-> "InvalidCallback", hooks |-> <<>>]
     ELSE IF readyState # "OPEN" THEN [r |-> "NotConnected", hooks |-> started]
     ELSE [r |-> "pass", hooks |-> started]
asyncSendStart(callback, readyState, c) ==
  IF callback.type # "object" THEN [r |-> "InvalidCallback", hooks |-> <<>>]
  ELSE IF readyState # "OPEN" THEN [r |-> "NotConnected", hooks |-> <<>>]
  ELSE [r |-> "pass",
        hooks |-> IF "onStart" \in callback.hooks
                  THEN <<HookEvent("call", c, "onStart", <<>>)>> ELSE <<>>]

\* asyncSend(operator, param, callback)
AsyncSend(operator, callback) ==
  LET c == Len(trace) + 1
      sequence == now
      listener == crc32(operator) + sequence
      start == asyncSendStart(callback, sockets[socket].readyState, c)
      call(r) == CallEvent("asyncSend", operator, callback, sequence, listener, r)
  IN
  /\ IF start.r # "pass"
     THEN /\ trace' = trace \o <<call(start.r)>> \o start.hooks
          /\ UNCHANGED <<requestCallback, wire>>
     ELSE IF requestCallback.t = "undefined"
     THEN \* line 91 throws a TypeError: nothing is registered or sent
          /\ trace' = trace \o <<call("TypeError")>> \o start.hooks
          /\ UNCHANGED <<requestCallback, wire>>
     ELSE /\ trace' = trace \o <<call("sent")>> \o start.hooks
          /\ requestCallback' =
               [requestCallback EXCEPT !.m = Put(@, listener, "oneshot", c)]
          /\ wire' = Append(wire, [socket |-> socket, operator |-> crc32(operator),
                                   sequence |-> sequence, header |-> requestHeader])
  /\ UNCHANGED <<requestHeader, responseHeader, maxPayload, now, readers>>
  /\ UNCHANGED connVars

\* send(data)
Send(data) ==
  LET call(r) == CallEvent("send", "", data, 0, 0, r) IN
  /\ IF sockets[socket].readyState # "OPEN"
     THEN /\ trace' = Append(trace, call("NotOpen"))
          /\ UNCHANGED wire
     ELSE /\ trace' = Append(trace, call("sent"))
          /\ wire' = Append(wire, [socket |-> socket, operator |-> data.operator,
                                   sequence |-> data.sequence, header |-> data.header])
  /\ UNCHANGED <<requestCallback, requestHeader, responseHeader, maxPayload, now, readers>>
  /\ UNCHANGED connVars

\* ping(param, requestCallback)
Ping(callback) ==
  LET c == Len(trace) + 1
      call(r) == CallEvent("ping", "ping", callback, 0, PingKey, r)
  IN
  /\ IF sockets[socket].readyState # "OPEN"
     THEN /\ trace' = Append(trace, call("NotConnected"))
          /\ UNCHANGED <<requestCallback, wire>>
     ELSE IF requestCallback.t = "undefined"
     THEN \* addMessageListener (line 138) throws a TypeError: nothing is sent
          /\ trace' = Append(trace, call("TypeError"))
          /\ UNCHANGED <<requestCallback, wire>>
     ELSE /\ trace' = Append(trace, call("sent"))
          /\ requestCallback' = [requestCallback EXCEPT !.m = Put(@, PingKey, "ping", c)]
          /\ wire' = Append(wire, [socket |-> socket, operator |-> 0,
                                   sequence |-> 0, header |-> requestHeader])
  /\ UNCHANGED <<requestHeader, responseHeader, maxPayload, now, readers>>
  /\ UNCHANGED connVars

\* setMaxPayload(maxPayload)
SetMaxPayload(m) ==
  /\ maxPayload' = m
  /\ trace' = Append(trace, CallEvent("setMaxPayload", "", m, 0, 0, "ok"))
  /\ UNCHANGED <<requestCallback, requestHeader, responseHeader, now, readers, wire>>
  /\ UNCHANGED connVars

\* addMessageListener(operator, listener)
AddMessageListener(operator, l) ==
  LET call(r) == CallEvent("addMessageListener", operator, l, 0, crc32(operator), r) IN
  /\ IF requestCallback.t = "undefined"
     THEN /\ trace' = Append(trace, call("TypeError"))
          /\ UNCHANGED requestCallback
     ELSE /\ trace' = Append(trace, call("ok"))
          /\ requestCallback' =
               [requestCallback EXCEPT !.m = Put(@, crc32(operator), "listener", l)]
  /\ UNCHANGED <<requestHeader, responseHeader, maxPayload, now, readers, wire>>
  /\ UNCHANGED connVars

\* removeMessageListener(operator)
RemoveMessageListener(operator) ==
  LET call(r) == CallEvent("removeMessageListener", operator, 0, 0, crc32(operator), r) IN
  /\ IF requestCallback.t = "undefined"
     THEN /\ trace' = Append(trace, call("TypeError"))
          /\ UNCHANGED requestCallback
     ELSE /\ trace' = Append(trace, call("ok"))
          /\ requestCallback' = [requestCallback EXCEPT !.m = Delete(@, crc32(operator))]
  /\ UNCHANGED <<requestHeader, responseHeader, maxPayload, now, readers, wire>>
  /\ UNCHANGED connVars

\* setRequestProperty(key, value)
SetRequestProperty(key, value) ==
  LET call(r) == CallEvent("setRequestProperty", "", <<key, value>>, 0, 0, r) IN
  /\ IF requestHeader.t = "undefined"
     THEN \* getRequestProperty splits undefined: a TypeError
          /\ trace' = Append(trace, call("TypeError"))
          /\ UNCHANGED requestHeader
     ELSE /\ trace' = Append(trace, call("ok"))
          /\ requestHeader' = Str(setRequestProperty(requestHeader.s, key, value))
  /\ UNCHANGED <<requestCallback, responseHeader, maxPayload, now, readers, wire>>
  /\ UNCHANGED connVars

\* setResponseProperty(key, value)
SetResponseProperty(key, value) ==
  LET call(r) == CallEvent("setResponseProperty", "", <<key, value>>, 0, 0, r) IN
  /\ IF responseHeader.t = "undefined"
     THEN /\ trace' = Append(trace, call("TypeError"))
          /\ UNCHANGED responseHeader
     ELSE /\ trace' = Append(trace, call("ok"))
          /\ responseHeader' = Str(setResponseProperty(responseHeader.s, key, value))
  /\ UNCHANGED <<requestCallback, requestHeader, maxPayload, now, readers, wire>>
  /\ UNCHANGED connVars

\* the clock advances by a millisecond
Tick ==
  /\ now < Epoch + MaxTicks
  /\ now' = now + 1
  /\ UNCHANGED <<requestCallback, requestHeader, responseHeader, maxPayload,
                 readers, wire, trace>>
  /\ UNCHANGED connVars

\* ws.onmessage of socket i with a Blob holding packet p: a FileReader starts
Message(i, p) ==
  /\ sockets[i].readyState = "OPEN"
  /\ readers' = Append(readers, p)
  /\ UNCHANGED <<requestCallback, requestHeader, responseHeader, maxPayload,
                 now, wire, trace>>
  /\ UNCHANGED connVars

\* reader.onload storing the frame's header before it looks the key up
ReaderLoadEager(k) ==
  LET packet == readers[k]
      packetLength == packet.headerLength + packet.bodyLength + 20
      operator == packet.operator + packet.sequence
      body == NormalBody(packet)
      data == JSONparse(body)
  IN
  /\ k \in 1..Len(readers)
  /\ readers' = [j \in 1..(Len(readers) - 1) |-> IF j < k THEN readers[j] ELSE readers[j + 1]]
  /\ IF packetLength > MAX_PAYLOAD
     THEN /\ trace' = Append(trace, FrameEvent(packet, "Oversized"))
          /\ UNCHANGED <<requestCallback, responseHeader>>
     ELSE IF requestCallback.t = "undefined"
     THEN /\ trace' = Append(trace, FrameEvent(packet, "TypeError"))
          /\ responseHeader' = Str(packet.header)
          /\ UNCHANGED requestCallback
     ELSE IF ~Has(requestCallback.m, operator)
     THEN /\ trace' = Append(trace, FrameEvent(packet, "dropped"))
          /\ responseHeader' = Str(packet.header)
          /\ UNCHANGED requestCallback
     ELSE IF data.t = "SyntaxError"
     THEN /\ responseHeader' = Str(packet.header)
          /\ trace' = Append(trace, FrameEvent(packet, "SyntaxError"))
          /\ UNCHANGED requestCallback
     ELSE LET entry == Entry(requestCallback.m, operator) IN
          /\ responseHeader' = Str(packet.header)
          /\ IF entry.kind = "oneshot"
             THEN /\ trace' = trace \o <<FrameEvent(packet, "dispatched")>>
                                \o OneShot(packet.header, trace[entry.ref].arg.hooks,
                                           entry.ref, data)
                  /\ requestCallback' = [requestCallback EXCEPT !.m = Delete(@, operator)]
             ELSE IF entry.kind = "ping"
             THEN /\ trace' = trace \o <<FrameEvent(packet, "dispatched")>>
                                \o PingListener(packet.header, trace[entry.ref].arg.hooks,
                                                entry.ref, data)
                  /\ UNCHANGED requestCallback
             ELSE /\ trace' = trace \o <<FrameEvent(packet, "dispatched"),
                                         HookEvent("listener", entry.ref, "listener", <<data>>)>>
                  /\ UNCHANGED requestCallback
  /\ UNCHANGED <<requestHeader, maxPayload, now, wire>>
  /\ UNCHANGED connVars
\* reader.onload of the k-th pending FileReader
ReaderLoad(k) ==
  LET packet == readers[k]
      packetLength == packet.headerLength + packet.bodyLength + 20
      operator == packet.operator + packet.sequence
      body == NormalBody(packet)
      data == JSONparse(body)
  IN
  /\ k \in 1..Len(readers)
  /\ readers' = [j \in 1..(Len(readers) - 1) |-> IF j < k THEN readers[j] ELSE readers[j + 1]]
  /\ IF packetLength > MAX_PAYLOAD
     THEN /\ trace' = Append(trace, FrameEvent(packet, "Oversized"))
          /\ UNCHANGED <<requestCallback, responseHeader>>
     ELSE IF requestCallback.t = "undefined"
     THEN \* hasOwnProperty of undefined: a TypeError, caught and thrown again
          /\ trace' = Append(trace, FrameEvent(packet, "TypeError"))
          /\ UNCHANGED <<requestCallback, responseHeader>>
     ELSE IF ~Has(requestCallback.m, operator)
     THEN /\ trace' = Append(trace, FrameEvent(packet, "dropped"))
          /\ UNCHANGED <<requestCallback, responseHeader>>
     ELSE IF data.t = "SyntaxError"
     THEN /\ responseHeader' = Str(packet.header)
          /\ trace' = Append(trace, FrameEvent(packet, "SyntaxError"))
          /\ UNCHANGED requestCallback
     ELSE LET entry == Entry(requestCallback.m, operator) IN
          /\ responseHeader' = Str(packet.header)
          /\ IF entry.kind = "oneshot"
             THEN /\ trace' = trace \o <<FrameEvent(packet, "dispatched")>>
                                \o OneShot(packet.header, trace[entry.ref].arg.hooks,
                                           entry.ref, data)
                  /\ requestCallback' = [requestCallback EXCEPT !.m = Delete(@, operator)]
             ELSE IF entry.kind = "ping"
             THEN /\ trace' = trace \o <<FrameEvent(packet, "dispatched")>>
                                \o PingListener(packet.header, trace[entry.ref].arg.hooks,
                                                entry.ref, data)
                  /\ UNCHANGED requestCallback
             ELSE /\ trace' = trace \o <<FrameEvent(packet, "dispatched"),
                                         HookEvent("listener", entry.ref, "listener", <<data>>)>>
                  /\ UNCHANGED requestCallback
  /\ UNCHANGED <<requestHeader, maxPayload, now, wire>>
  /\ UNCHANGED connVars

\* the bounds on inbound messages
FramesLeft == Len(readers) + Cardinality(FramesSeen) < MaxFrames
InboundLeft == Len(readers) + Cardinality(FramesSeen) < MaxInbound

Next ==
  \/ \E i \in 1..Len(sockets) : Open(i)
  \/ \E i \in 1..Len(sockets) : Error(i)
  \/ \E i \in 1..Len(sockets) : Close(i)
  \/ \E k \in 1..Len(timers) : TimerFire(k)
  \/ CallsLeft /\ \E operator \in Operators, callback \in CallbackArgs : AsyncSend(operator, callback)
  \/ CallsLeft /\ \E callback \in CallbackArgs : Ping(callback)
  \/ CallsLeft /\ Send(RawData)
  \/ CallsLeft /\ \E m \in MaxPayloads : SetMaxPayload(m)
  \/ CallsLeft /\ \E operator \in Operators, l \in Listeners : AddMessageListener(operator, l)
  \/ CallsLeft /\ \E operator \in Operators : RemoveMessageListener(operator)
  \/ CallsLeft /\ \E key \in {<<"b">>}, value \in {<<"x">>} : SetRequestProperty(key, value)
  \/ CallsLeft /\ \E key \in {<<"b">>}, value \in {<<"x">>} : SetResponseProperty(key, value)
  \/ Tick
  \/ FramesLeft /\ \E i \in 1..Len(sockets), p \in Frames : Message(i, p)
  \/ \E k \in 1..Len(readers) : ReaderLoad(k)

\* the client: every operation and every event
Spec == Init /\ [][Next]_vars

\* the connection manager alone: transport events, reconnect timers and the
\* clock, with no application call and no inbound message
ConnNext ==
  \/ \E i \in 1..Len(sockets) : Open(i)
  \/ \E i \in 1..Len(sockets) : Error(i)
  \/ \E i \in 1..Len(sockets) : Close(i)
  \/ \E k \in 1..Len(timers) : TimerFire(k)
  \/ Tick

ConnSpec == Init /\ [][ConnNext]_vars

\* asyncSend alone, with the transport events and the clock
SendNext ==
  \/ ConnNext
  \/ CallsLeft /\ \E operator \in Operators, callback \in CallbackArgs : AsyncSend(operator, callback)

SendSpec == Init /\ [][SendNext]_vars

\* the inbound path alone: the transport events, the clock, the messages the
\* transport delivers and their readers
InboundNext ==
  \/ ConnNext
  \/ FramesLeft /\ \E i \in 1..Len(sockets), p \in Frames : Message(i, p)
  \/ \E k \in 1..Len(readers) : ReaderLoad(k)

InboundSpec == Init /\ [][InboundNext]_vars

\* pending timers eventually fire
FairConnSpec == ConnSpec /\ WF_vars(\E k \in 1..Len(timers) : TimerFire(k))

\* the header table functions alone, applied to the header strings that
\* setRequestProperty and setResponseProperty build from the empty string
HeaderInit ==
  /\ sockets = <<NewSocket>>
  /\ socket = 1
  /\ reconnectTimes = Undefined
  /\ reconnectLock = Undefined
  /\ timers = <<>>
  /\ attempts = 0
  /\ requestCallback = [t |-> "undefined", m |-> {}]
  /\ requestHeader = Str(<<>>)
  /\ responseHeader = Str(<<>>)
  /\ maxPayload = MAX_PAYLOAD
  /\ now = Epoch
  /\ readers = <<>>
  /\ wire = <<>>
  /\ trace = <<>>

HeaderNext ==
  \/ SetsLeft /\ \E key \in Keys, value \in Values : SetRequestProperty(key, value)
  \/ SetsLeft /\ \E key \in Keys, value \in Values : SetResponseProperty(key, value)

HeaderSpec == HeaderInit /\ [][HeaderNext]_vars

\* the dispatch of inbound frames alone, applied to the registries that
\* asyncSend and addMessageListener build from the empty object, the fields
\* holding values of their declared types (RequestCallback, string)
DispatchInit ==
  /\ sockets = <<NewSocket>>
  /\ socket = 1
  /\ reconnectTimes = Undefined
  /\ reconnectLock = Undefined
  /\ timers = <<>>
  /\ attempts = 0
  /\ requestCallback = [t |-> "object", m |-> {}]
  /\ requestHeader = Str(<<>>)
  /\ responseHeader = Str(<<>>)
  /\ maxPayload = MAX_PAYLOAD
  /\ now = Epoch
  /\ readers = <<>>
  /\ wire = <<>>
  /\ trace = <<>>

DispatchNext ==
  \/ \E i \in 1..Len(sockets) : Open(i)
  \/ CallsLeft /\ \E callback \in CallbackArgs : AsyncSend("foo", callback)
  \/ CallsLeft /\ \E l \in Listeners : AddMessageListener("bar", l)
  \/ InboundLeft /\ \E i \in 1..Len(sockets), p \in Frames \cup {EmptyPush} : Message(i, p)
  \/ \E k \in 1..Len(readers) : ReaderLoad(k)

DispatchSpec == DispatchInit /\ [][DispatchNext]_vars

\* ------------------------------------------------------------------ claims
Min(S) == CHOOSE a \in S : \A b \in S : a <= b
KeyOf(p) == p.operator + p.sequence

\* asyncSend calls made with a record while the socket was OPEN
IssuedOpen(i) ==
  /\ trace[i].e = "call"
  /\ trace[i].fn = "asyncSend"
  /\ trace[i].r \in {"TypeError", "sent"}

\* the frames dispatched after event i whose operator + sequence is key
FramesAfter(i, key) == {j \in FramesSeen : j > i /\ KeyOf(trace[j].packet) = key}

\* the invocations of the hooks `names' of call i
HooksOf(i, names) ==
  {j \in 1..Len(trace) :
     /\ trace[j].e = "hook"
     /\ trace[j].kind = "call"
     /\ trace[j].id = i
     /\ trace[j].hook \in names}

\* the header string h has a token whose key is `key'
HasKey(h, key) ==
  LET values == Split(h, ";")
  IN \E i \in 1..Len(values) : Split(values[i], "=")[1] = key

\* the body handed to JSON.parse for packet p
ParsedBody(p) == JSONparse(IF p.body = <<>> THEN <<"{}">> ELSE p.body)

\* C1: every asyncSend issued while OPEN with a record that has onSuccess,
\* onError and onEnd gets, from the first later frame with its key, exactly one
\* of onSuccess/onError and then exactly one onEnd, after which its entry is
\* gone; a second frame with the same key invokes none of its hooks.
C1_DeliveredOnce ==
  \A i \in 1..Len(trace) :
    ( /\ IssuedOpen(i)
      /\ {"onSuccess", "onError", "onEnd"} \subseteq trace[i].arg.hooks
      /\ FramesAfter(i, trace[i].key) # {} )
    => LET later == FramesAfter(i, trace[i].key)
           f == Min(later)
           res == HooksOf(i, {"onSuccess", "onError"})
           end == HooksOf(i, {"onEnd"})
       IN /\ Cardinality(res) = 1
          /\ Cardinality(end) = 1
          /\ \A a \in res, b \in end :
               /\ f < a
               /\ a < b
               /\ \A g \in later \ {f} : b < g
          /\ ~\E x \in requestCallback.m : x.kind = "oneshot" /\ x.ref = i

\* C2: when the first frame matching an asyncSend call has no `code' key in
\* its header, the call's onSuccess is invoked with the parsed body, then its
\* onEnd, and its onError is never invoked for a frame without a `code' key.
C2_SuccessWithoutCode ==
  \A i \in 1..Len(trace) :
    ( /\ IssuedOpen(i)
      /\ {"onSuccess", "onEnd"} \subseteq trace[i].arg.hooks
      /\ FramesAfter(i, trace[i].key) # {}
      /\ ~HasKey(trace[Min(FramesAfter(i, trace[i].key))].packet.header, <<"code">>) )
    => LET f == Min(FramesAfter(i, trace[i].key))
       IN /\ f + 2 <= Len(trace)
          /\ trace[f + 1].e = "hook"
          /\ trace[f + 1].id = i
          /\ trace[f + 1].hook = "onSuccess"
          /\ trace[f + 1].args = <<ParsedBody(trace[f].packet)>>
          /\ trace[f + 2].e = "hook"
          /\ trace[f + 2].id = i
          /\ trace[f + 2].hook = "onEnd"
          /\ \A j \in HooksOf(i, {"onError"}) : j < f

\* C3: at most one reconnect timer is pending.
C3_OneTimer == Len(timers) <= 1

\* a close event has arrived while the reconnect scheduled by the error event
\* of the same socket was pending
C3_Witness ==
  /\ reconnectLock = JSTrue
  /\ Len(timers) = 1
  /\ sockets[Len(sockets)].error
  /\ sockets[Len(sockets)].close

\* C4: every reconnect is scheduled with a delay of 1000 ms times the number
\* of attempts issued since the last open (or since construction).
C4_LinearDelay ==
  [][Len(timers') > Len(timers) => timers'[Len(timers')] = attempts * 1000]_vars

\* C5: reconnectTimes is 0 after every open event, only an open event resets
\* it, only a timer that issues an attempt changes it otherwise, and then a
\* counter that holds a number grows by exactly 1.
Opens == \E i \in 1..Len(sockets) :
           sockets[i].readyState = "CONNECTING" /\ sockets'[i].readyState = "OPEN"
Attempts == Len(sockets') = Len(sockets) + 1
C6_Recovers ==
  /\ \A n \in 1..MaxSockets :
       (reconnectLock = JSTrue /\ Len(sockets) = n) ~> (Len(sockets) > n)
  /\ (reconnectLock = JSTrue) ~> (reconnectLock = JSFalse)

\* the first socket has closed, its replacement has been created and the
\* lock is released
C6_Witness ==
  /\ sockets[1].close
  /\ Len(sockets) >= 2
  /\ reconnectLock = JSFalse

\* C7: a step in which asyncSend throws NotConnected or InvalidCallback adds
\* the call to the history and nothing else: no hook, no entry, no frame.
C7_FailedSendNoEffect ==
  [][ ( /\ Len(trace') > Len(trace)
        /\ trace'[Len(trace) + 1].e = "call"
        /\ trace'[Len(trace) + 1].fn = "asyncSend"
        /\ trace'[Len(trace) + 1].r \in {"NotConnected", "InvalidCallback"} )
      => /\ Len(trace') = Len(trace) + 1
         /\ requestCallback' = requestCallback
         /\ wire' = wire
    ]_vars

\* asyncSend has failed both ways, once with a record that has onStart
C7_Witness ==
  /\ \E i \in Calls : /\ trace[i].fn = "asyncSend"
                      /\ trace[i].r = "NotConnected"
                      /\ "onStart" \in trace[i].arg.hooks
  /\ \E i \in Calls : /\ trace[i].fn = "asyncSend"
                      /\ trace[i].r = "InvalidCallback"

\* C8: a listener added for an operator and not removed or replaced by a
\* later call for that operator is in the registry under crc32(operator), and
\* every later frame with that key invokes it.
C8_ListenerStays ==
  \A i \in 1..Len(trace) :
    ( /\ trace[i].e = "call"
      /\ trace[i].fn = "addMessageListener"
      /\ ~\E j \in (i + 1)..Len(trace) :
            /\ trace[j].e = "call"
            /\ trace[j].fn \in {"addMessageListener", "removeMessageListener"}
            /\ trace[j].op = trace[i].op )
    => /\ \E x \in requestCallback.m :
            x.key = crc32(trace[i].op) /\ x.kind = "listener" /\ x.ref = trace[i].arg
       /\ \A f \in FramesAfter(i, crc32(trace[i].op)) :
            /\ f + 1 <= Len(trace)
            /\ trace[f + 1].e = "hook"
            /\ trace[f + 1].kind = "listener"
            /\ trace[f + 1].id = trace[i].arg

\* C9: two asyncSend calls to the same operator, the second issued while the
\* first is unanswered, have different sequences, and while both are
\* unanswered each has its own registry entry.
C9_DistinctSequences ==
  \A i, j \in 1..Len(trace) :
    ( /\ i < j
      /\ IssuedOpen(i)
      /\ IssuedOpen(j)
      /\ trace[i].op = trace[j].op
      /\ \A f \in FramesAfter(i, trace[i].key) : f > j )
    => /\ trace[i].seq # trace[j].seq
       /\ ( FramesAfter(i, trace[i].key) = {} /\ FramesAfter(j, trace[j].key) = {} )
            => /\ \E x \in requestCallback.m : x.kind = "oneshot" /\ x.ref = i
               /\ \E x \in requestCallback.m : x.kind = "oneshot" /\ x.ref = j

OtherTokens(h, key) ==
  SelectSeq(Split(h, ";"), LAMBDA t : Split(t, "=")[1] # key)

Issued(i) ==
  /\ trace[i].e = "call"
  /\ trace[i].fn \in {"asyncSend", "ping"}
  /\ trace[i].r \in {"TypeError", "sent"}

\* C12: when the first frame matching an asyncSend or ping call carries the
\* header code=404;message=not+found; the call's onError is invoked with the
\* number 404 and the message "not found", and its onSuccess is not invoked.
C12_ErrorRouting ==
  \A i \in 1..Len(trace) :
    ( /\ Issued(i)
      /\ "onError" \in trace[i].arg.hooks
      /\ FramesAfter(i, trace[i].key) # {}
      /\ trace[Min(FramesAfter(i, trace[i].key))].packet.header = ErrorHeader )
    => LET f == Min(FramesAfter(i, trace[i].key))
       IN /\ f + 1 <= Len(trace)
          /\ trace[f + 1].e = "hook"
          /\ trace[f + 1].id = i
          /\ trace[f + 1].hook = "onError"
          /\ trace[f + 1].args = <<Num(404), Str(<<"not found">>)>>
          /\ HooksOf(i, {"onSuccess"}) = {}

\* C13: a frame whose headerLength + bodyLength + 20 exceeds the configured
\* maximum payload fails as oversized: no callback is invoked for it and the
\* response header is left as it was.
C13_OversizedRejected ==
  [][ ( /\ Len(trace') > Len(trace)
        /\ trace'[Len(trace) + 1].e = "frame"
        /\ trace'[Len(trace) + 1].packet.headerLength
             + trace'[Len(trace) + 1].packet.bodyLength + 20 > maxPayload )
      => /\ trace'[Len(trace) + 1].r = "Oversized"
         /\ Len(trace') = Len(trace) + 1
         /\ responseHeader' = responseHeader
    ]_vars

\* C14: a frame is written only by a step that is a call of asyncSend, ping or
\* send, one frame per call and on the current socket; a connection event
\* (open, error, close, reconnect timer) writes nothing, invokes no hook and
\* leaves the registry as it was.
C14_NoResend ==
  [][ /\ wire' # wire =>
           /\ Len(trace') > Len(trace)
           /\ trace'[Len(trace) + 1].e = "call"
           /\ trace'[Len(trace) + 1].fn \in {"asyncSend", "ping", "send"}
           /\ Len(wire') = Len(wire) + 1
           /\ SubSeq(wire', 1, Len(wire)) = wire
           /\ wire'[Len(wire')].socket = socket
      /\ sockets' # sockets =>
           /\ wire' = wire
           /\ trace' = trace
           /\ requestCallback' = requestCallback
    ]_vars

\* a frame was sent on the first socket, and its replacement has opened
\* without the frame being written again
C14_Witness ==
  /\ Len(wire) = 1
  /\ wire[1].socket = 1
  /\ Len(sockets) >= 2
  /\ socket = 2
  /\ sockets[2].readyState = "OPEN"

\* C15: ping behaves as asyncSend does: made while the socket is not OPEN it
\* fails with NotConnected; made while OPEN it invokes the record's onStart
\* (if present) at once, writes its frame and registers its listener, which
\* stays registered; each later frame with the ping key invokes onError when
\* its header has a code and onSuccess when it has none (if the record has the
\* hook), then onEnd (if present), and no absent hook is called.
C15_PingAsSend ==
  \A i \in 1..Len(trace) :
    (trace[i].e = "call" /\ trace[i].fn = "ping")
    => /\ trace[i].r \in {"NotConnected", "sent"}
       /\ trace[i].r = "sent" =>
            /\ "onStart" \in trace[i].arg.hooks =>
                 /\ i + 1 <= Len(trace)
                 /\ trace[i + 1].e = "hook"
                 /\ trace[i + 1].id = i
                 /\ trace[i + 1].hook = "onStart"
            /\ \E w \in 1..Len(wire) : wire[w].operator = 0 /\ wire[w].sequence = 0
            /\ \E x \in requestCallback.m : x.key = PingKey
            /\ HooksOf(i, {"TypeError"}) = {}
            /\ \A f \in FramesAfter(i, PingKey) :
                 LET routed == IF HasKey(trace[f].packet.header, <<"code">>)
                               THEN "onError" ELSE "onSuccess"
                 IN routed \in trace[i].arg.hooks =>
                      /\ f + 1 <= Len(trace)
                      /\ trace[f + 1].e = "hook"
                      /\ trace[f + 1].hook = routed

\* C16: a step that invokes a callback for a frame leaves the response header
\* equal to that frame's header, and what the callback reads from the response
\* header (the code and message handed to onError) is read from that frame's
\* header.
C16_HeaderBeforeCallback ==
  [][ ( /\ Len(trace') > Len(trace) + 1
        /\ trace'[Len(trace) + 1].e = "frame" )
      => LET h == trace'[Len(trace) + 1].packet.header IN
         /\ responseHeader' = Str(h)
         /\ \A j \in (Len(trace) + 2)..Len(trace') :
              trace'[j].hook = "onError" =>
                trace'[j].args = <<getResponseProperty(h, <<"code">>),
                                   getResponseProperty(h, <<"message">>)>>
    ]_vars

\* a frame with the header code=404;message=not+found; has been delivered to
\* the onError hook of an asyncSend call, the response header before it being
\* the empty string or the header of another frame
C16_Witness ==
  /\ responseHeader = Str(ErrorHeader)
  /\ \E f \in FramesSeen :
       /\ trace[f].packet.header = ErrorHeader
       /\ f + 1 <= Len(trace)
       /\ trace[f + 1].e = "hook"
       /\ trace[f + 1].hook = "onError"
       /\ trace[f + 1].args = <<Str(<<"404">>), Str(<<"not+found">>)>>

\* C17: a step that handles a frame whose operator + sequence has no entry in
\* the registry invokes no hook and changes neither the registry nor the two
\* headers nor the sockets, reconnectTimes, reconnectLock and the timers.
C17_UnmatchedDropped ==
  [][ ( /\ Len(trace') > Len(trace)
        /\ trace'[Len(trace) + 1].e = "frame"
        /\ ~Has(requestCallback.m, KeyOf(trace'[Len(trace) + 1].packet)) )
      => /\ Len(trace') = Len(trace) + 1
         /\ requestCallback' = requestCallback
         /\ requestHeader' = requestHeader
         /\ responseHeader' = responseHeader
         /\ UNCHANGED <<sockets, socket, reconnectTimes, reconnectLock, timers>>
    ]_vars

\* a frame small enough to pass the size check has been handled while the
\* registry held nothing under its key
C17_Witness ==
  \E f \in FramesSeen :
    /\ trace[f].r \in {"TypeError", "dropped"}
    /\ ~Has(requestCallback.m, KeyOf(trace[f].packet))
    /\ f = Len(trace)

\* C18: a step that handles a frame with an empty body whose key has an entry
\* in the registry parses "{}" and invokes the entry: the frame is dispatched,
\* never lost to a parse error, a listener receives the empty object, and so
\* does every onSuccess hook the step invokes; a one-shot entry is consumed.
EmptyObject == JSONparse(<<"{}">>)
Live == {i \in 1..Len(sockets) : sockets[i].readyState \in {"CONNECTING", "OPEN"}}
RemoveAt(s, k) == [j \in 1..(Len(s) - 1) |-> IF j < k THEN s[j] ELSE s[j + 1]]

====
